---- MODULE Spec2Model ----
(***************************************************************************)
(* liko-physics: the Physics world context (src/physics/physics.ts), its   *)
(* deferred contact queue, and the RigidBody script                        *)
(* (src/physics/rigidBody.ts).                                             *)
(*                                                                         *)
(* Numbers are held in hundredths (fixed point): a pixel length of 50 is   *)
(* 5000, a simulation length of 1 is 100, a normal component of -0.5 is    *)
(* -50.  Multiplying or dividing by pixelRatio keeps the scale.            *)
(*                                                                         *)
(* Every RigidBody b owns exactly one planck body, created in its field    *)
(* initialiser; the body carries the same index b.  Body 0 is a body the   *)
(* host created directly on the exported world: it has a fixture and no    *)
(* user data.                                                              *)
(***************************************************************************)
EXTENDS Integers, Sequences, FiniteSets, TLC

\* ---------------------------------------------------------------- bounds
MaxQueue == 2
MaxLoops == 2
MaxShapes == 1
\* how many shapes the host buffers on, and adds to, the binding it shapes
MaxBuffered == 2
\* how many conversions the host applies to a number, one after the other
MaxTrip == 3
\* how many category names are ever given a bit
MaxNames == 16

\* ------------------------------------------------------ program constants
pixelRatio == 50

Bindings == {1, 2}
RawBody == 0
Bodies == {RawBody} \cup Bindings
\* getUserData() of a body whose user data was never set
NoBinding == Cardinality(Bindings) + 1
\* boundaryArea is held as a sequence: empty when undefined, else the rectangle
NoArea == <<>>
Timers == {"system", "other"}
RigidTypes == {"static", "kinematic", "dynamic"}
EventTypes == {"collisionStart", "collisionEnd"}
CrossSides == {"left", "right", "top", "bottom"}
NoSide == "undefined"
\* getCategoryMask of no list
AcceptAll == 65535
\* category names that get an own property of _categoryMap when first used
OwnNames == {"hero", "enemy"}
\* a name that every object inherits as a property from Object.prototype
InheritedNames == {"toString"}
\* the value of _categoryMap[name] for an inherited name: a function, not a
\* number (held as a negative number, which no bit is)
InheritedValue == 0 - 1
\* stands for a name that no call has used before and no call uses again
FreshName == "fresh"

\* ------------------------------------------------- coordinate conversion
toPhy(value) == value \div pixelRatio

to2D(value) == value * pixelRatio

toPhyPos(pos) == [x |-> pos.x \div pixelRatio, y |-> pos.y \div pixelRatio]

to2DPos(pos) == [x |-> pos.x * pixelRatio, y |-> pos.y * pixelRatio]

\* ------------------------------------- conversion in double precision
\* A number of the program is an IEEE 754 double.  A double is held as its
\* sign, its 53-bit significand as three limbs <<a, b, c>> of 17, 18 and 18
\* bits (the value a * Limb ^ 2 + b * Limb + c; no limb at all for zero), and
\* the exponent e of the last bit: the value is significand * 2 ^ e.
\* Exponents stay far from the ends of the format here.
LimbBits == 18

Limb == 2 ^ LimbBits

\* the number of bits of a natural number below 2 ^ 24
bitLength(x) == CHOOSE k \in 0..24 : IF k = 0 THEN x = 0 ELSE 2 ^ (k - 1) <= x /\ x < 2 ^ k

\* significand + 1: the next double away from zero
nextUp(d) ==
    IF d.m[3] + 1 < Limb THEN [d EXCEPT !.m = <<d.m[1], d.m[2], d.m[3] + 1>>]
    ELSE IF d.m[2] + 1 < Limb THEN [d EXCEPT !.m = <<d.m[1], d.m[2] + 1, 0>>]
    ELSE IF d.m[1] + 1 < Limb \div 2 THEN [d EXCEPT !.m = <<d.m[1] + 1, 0, 0>>]
    ELSE [d EXCEPT !.m = <<Limb \div 4, 0, 0>>, !.e = @ + 1]

\* round to nearest, ties to even: the double nearest to the number with the
\* four limbs d, times 2 ^ e, plus a fraction of its last bit that is not 0
\* when sticky.  The number has at least 53 bits and fewer than 71.
roundDouble(neg, d, sticky, e) ==
    LET s == bitLength(d[1]) + 1
        low == d[4] % (2 ^ s)
        half == 2 ^ (s - 1)
        keep == <<(d[2] \div (2 ^ s)) + (d[1] % (2 ^ s)) * (2 ^ (LimbBits - s)),
                  (d[3] \div (2 ^ s)) + (d[2] % (2 ^ s)) * (2 ^ (LimbBits - s)),
                  (d[4] \div (2 ^ s)) + (d[3] % (2 ^ s)) * (2 ^ (LimbBits - s))>>
        down == [neg |-> neg, m |-> keep, e |-> e + s]
        up == low > half \/ (low = half /\ (sticky \/ keep[3] % 2 = 1))
    IN  IF up THEN nextUp(down) ELSE down

\* the double of an integer below 2 ^ 17 in size
fromInt(n) ==
    LET size == IF n < 0 THEN 0 - n ELSE n
        t == bitLength(size)
    IN  IF n = 0 THEN [neg |-> FALSE, m |-> <<>>, e |-> 0]
        ELSE [neg |-> n < 0, m |-> <<size * (2 ^ (LimbBits - 1 - t)), 0, 0>>, e |-> t - (3 * LimbBits - 1)]

\* x * c in double arithmetic, for an integer c from 2 to 4095
mulDouble(x, c) ==
    IF x.m = <<>> THEN x
    ELSE LET p3 == x.m[3] * c
             p2 == x.m[2] * c + (p3 \div Limb)
             p1 == x.m[1] * c + (p2 \div Limb)
         IN  roundDouble(x.neg, <<p1 \div Limb, p1 % Limb, p2 % Limb, p3 % Limb>>, FALSE, x.e)

\* x / c in double arithmetic, for an integer c from 2 to 4095
divDouble(x, c) ==
    IF x.m = <<>> THEN x
    ELSE LET t2 == (x.m[1] % c) * Limb + x.m[2]
             t3 == (t2 % c) * Limb + x.m[3]
             t4 == (t3 % c) * Limb
         IN  roundDouble(x.neg, <<x.m[1] \div c, t2 \div c, t3 \div c, t4 \div c>>, t4 % c # 0, x.e - LimbBits)

\* to2D as it would be if it divided as well
to2D64_divides(value) == divDouble(value, pixelRatio)

\* toPhy, to2D, toPhyPos, to2DPos on doubles
toPhy64(value) == divDouble(value, pixelRatio)

to2D64(value) == mulDouble(value, pixelRatio)

toPhyPos64(pos) == [x |-> toPhy64(pos.x), y |-> toPhy64(pos.y)]

to2DPos64(pos) == [x |-> to2D64(pos.x), y |-> to2D64(pos.y)]

\* ------------------------------------------------------------ scene graph
\* The scene graph is translation-only here.  Entity 1 is a direct child of
\* the scene with no pivot; every other entity sits under a parent that is
\* offset from the scene and has a pivot.
pivot == [b \in Bindings |-> IF b = 1 THEN [x |-> 0, y |-> 0] ELSE [x |-> 1000, y |-> 0]]

parentOffset == [b \in Bindings |-> IF b = 1 THEN [x |-> 0, y |-> 0] ELSE [x |-> 5000, y |-> 0]]

parentIsScene(b) == b = 1

\* target.toWorldPoint((0,0), _, scene): the scene position of the entity's
\* local origin.
toWorldPoint(b, pos) == [x |-> parentOffset[b].x + pos.x - pivot[b].x, y |-> parentOffset[b].y + pos.y - pivot[b].y]

\* target.parent.toLocalPoint(p, _, scene)
toLocalPoint(b, p) == [x |-> p.x - parentOffset[b].x, y |-> p.y - parentOffset[b].y]

\* Rectangle.contains(x, y).  Whether a point exactly on the rectangle's edge
\* counts as contained is the Rectangle class's choice; onEdge carries it.
contains(area, x, y, onEdge) ==
    LET right == area.x + area.width
        bottom == area.y + area.height
    IN  IF x < area.x \/ x > right \/ y < area.y \/ y > bottom THEN FALSE
        ELSE IF x > area.x /\ x < right /\ y > area.y /\ y < bottom THEN TRUE
        ELSE onEdge

\* ------------------------------------------------------------ input sets
Areas == {<<[x |-> 0, y |-> 0, width |-> 10000, height |-> 10000]>>}

\* poses the solver may move a body to: strictly inside the area, on its
\* right edge, strictly outside
SimPoses == {[x |-> 100, y |-> 100, angle |-> 0], [x |-> 200, y |-> 100, angle |-> 0], [x |-> 300, y |-> 100, angle |-> 90]}

\* local normals of a manifold, around the 0.5 threshold
Normals == {[x |-> 0, y |-> -100], [x |-> 0, y |-> 100], [x |-> -100, y |-> 0], [x |-> 100, y |-> 0], [x |-> -50, y |-> -87], [x |-> 50, y |-> 87], [x |-> -51, y |-> -86], [x |-> 51, y |-> 86], [x |-> -87, y |-> -50], [x |-> 87, y |-> 50], [x |-> -86, y |-> -51], [x |-> 86, y |-> 51]}

\* the listeners an entity may have been given
ListenerSets == {{}, EventTypes}

ShapeTypes == {"box", "circle", "edge", "polygon", "star"}

VARIABLES
    enabled,        \* Physics.enabled
    timer,          \* Physics.timer
    loops,          \* per timer: number of frameLoop subscriptions of update
    boundaryArea,   \* Physics.boundaryArea
    contacts,       \* Physics._contacts: flat array type, contact, type, contact, ...
    pc,             \* where update() is: "idle", "solving" (inside world.step), "draining"
    i,              \* loop index of the drain (0-based, as in the code)
    bodies,         \* bodies in the world (not destroyed by world.destroyBody)
    touching,       \* contacts of the world that are touching: <<bodyA, bodyB>>
    bpos,           \* body position and angle
    bkind,          \* body type
    bactive,        \* body active flag
    userData,       \* body user data
    fixtures,       \* per body: sequence of fixtures
    rigidType,      \* RigidBody.rigidType
    shapes,         \* RigidBody.shapes
    scene,          \* RigidBody.scene is set
    awaked,         \* RigidBody.awaked
    destroyed,      \* RigidBody.destroyed (the owning entity was destroyed)
    epos,           \* target.pos
    erot,           \* target.rotation
    listeners,      \* per entity: the event names that have a listener
    emitted,        \* events emitted by the running update(), in order
    evals,          \* per drained queue entry: what the drain saw and did
    presolved,      \* the last pre-solve notification and contact.isEnabled() after its handler (a sequence of at most one)
    thrown,         \* the error the last lifecycle call threw, if any
    lastUpdate,     \* the binding whose onUpdate was the last operation, or NoBinding
    lastCall,       \* the addShape or setVelocity call that was the last operation (a sequence of at most one)
    categoryMap,    \* Physics._categoryMap: the own properties, name -> bit (0: no own property)
    count,          \* Physics._count
    returned,       \* the last getCategoryBit / getCategoryMask call of the host and its value (a sequence of at most one)
    category,       \* RigidBody.category
    categoryAccepted, \* RigidBody.categoryAccepted (a sequence: empty when undefined, else the list)
    bvel,           \* body linear velocity
    conv            \* the numbers the host has run through the conversions: values and calls

vars == <<enabled, timer, loops, boundaryArea, contacts, pc, i, bodies, touching, bpos, bkind, bactive, userData, fixtures, rigidType, shapes, scene, awaked, destroyed, epos, erot, listeners, emitted, evals, presolved, thrown, lastUpdate, lastCall, categoryMap, count, returned, category, categoryAccepted, bvel, conv>>

physVars == <<enabled, timer, loops, boundaryArea, contacts, pc, i>>

worldVars == <<bodies, touching, bpos, bkind, bactive, userData, fixtures>>

scriptVars == <<rigidType, shapes, scene, awaked, destroyed>>

entityVars == <<epos, erot, listeners>>

categoryVars == <<categoryMap, count, returned, category, categoryAccepted>>


\* ------------------------------------------------------------------ Init
\* The state after `new Physics()`, after the host has created body 0 and
\* after `new RigidBody(options)` for every binding: each binding's body is
\* inactive, kinematic and has no fixture, no user data.
Init ==
    /\ enabled = FALSE
    /\ timer = "system"
    /\ loops = [t \in Timers |-> 0]
    /\ boundaryArea = NoArea
    /\ contacts = <<>>
    /\ pc = "idle"
    /\ i = 0
    /\ bodies = Bodies
    /\ touching = {}
    /\ bpos = [b \in Bodies |-> [x |-> 0, y |-> 0, angle |-> 0]]
    /\ bkind = [b \in Bodies |-> IF b = RawBody THEN "dynamic" ELSE "kinematic"]
    /\ bactive = [b \in Bodies |-> b = RawBody]
    /\ userData = [b \in Bodies |-> NoBinding]
    /\ fixtures = [b \in Bodies |-> IF b = RawBody THEN <<[shapeType |-> "box", crossSide |-> NoSide, categoryBits |-> 1, maskBits |-> AcceptAll]>> ELSE <<>>]
    /\ rigidType \in [Bindings -> RigidTypes]
    /\ shapes = [b \in Bindings |-> <<>>]
    /\ scene = [b \in Bindings |-> TRUE]
    /\ awaked = [b \in Bindings |-> FALSE]
    /\ destroyed = [b \in Bindings |-> FALSE]
    /\ epos = [b \in Bindings |-> IF b = 1 THEN [x |-> 5000, y |-> 5000] ELSE [x |-> 11000, y |-> 5000]]
    /\ erot = [b \in Bindings |-> 0]
    /\ listeners \in [Bindings -> ListenerSets]
    /\ emitted = <<>>
    /\ evals = <<>>
    /\ presolved = <<>>
    /\ thrown = "none"
    /\ lastUpdate = NoBinding
    /\ lastCall = <<>>
    /\ categoryMap = [n \in OwnNames \cup InheritedNames |-> 0]
    /\ count = 1
    /\ returned = <<>>
    /\ category = [b \in Bindings |-> ""]
    /\ categoryAccepted = [b \in Bindings |-> <<>>]
    /\ bvel = [b \in Bodies |-> [x |-> 0, y |-> 0]]
    /\ conv = <<>>

\* ------------------------------------------------- the mutable state, as a
\* value: what the code run by a listener, by world.destroyBody or by
\* physics.enable can change.
St == [timer |-> timer, contacts |-> contacts, emitted |-> emitted, destroyed |-> destroyed, bodies |-> bodies, touching |-> touching, enabled |-> enabled, loops |-> loops]

Commit(st) ==
    /\ timer' = st.timer
    /\ contacts' = st.contacts
    /\ emitted' = st.emitted
    /\ destroyed' = st.destroyed
    /\ bodies' = st.bodies
    /\ touching' = st.touching
    /\ enabled' = st.enabled
    /\ loops' = st.loops

\* onContact as it would be if it dispatched from inside the solver call
onContact_dispatch(st, type, contact) ==
    LET rb == userData[contact[1]]
        name == IF type # 0 THEN "collisionEnd" ELSE "collisionStart"
        queued == [st EXCEPT !.contacts = Append(Append(@, type), contact)]
    IN  IF rb # NoBinding /\ name \in listeners[rb]
        THEN [queued EXCEPT !.emitted = Append(@, [to |-> rb, type |-> name, other |-> userData[contact[2]], at |-> Len(st.contacts), live |-> ~st.destroyed[rb]])]
        ELSE queued

\* function onContact(type, contact) { contacts.push(type, contact) }
onContact(st, type, contact) == [st EXCEPT !.contacts = Append(Append(@, type), contact)]

\* the touching contacts of a body, in the order of the body's contact list
\* (rev: the list happens to hold them the other way round)
ContactsOf(st, body, rev) ==
    LET cs == {c \in st.touching : c[1] = body \/ c[2] = body}
        asc == CHOOSE q \in [1..Cardinality(cs) -> cs] : (\A m, n \in 1..Cardinality(cs) : m < n => (q[m][1] + q[m][2] < q[n][1] + q[n][2]))
    IN  IF rev THEN [n \in 1..Cardinality(cs) |-> asc[Cardinality(cs) + 1 - n]] ELSE asc

RECURSIVE endContacts(_, _, _)
\* world.destroyBody raises end-contact for each touching contact it destroys
endContacts(st, cs, n) ==
    IF n > Len(cs) THEN st
    ELSE endContacts(onContact(st, 1, cs[n]), cs, n + 1)

\* planck World.destroyBody(body), called outside world.step
destroyBody(st, body, rev) ==
    LET cs == ContactsOf(st, body, rev)
        st1 == endContacts(st, cs, 1)
    IN  [st1 EXCEPT !.touching = {c \in @ : c[1] # body /\ c[2] # body}, !.bodies = @ \ {body}]

\* RigidBody.onDestroy
onDestroy(st, b, rev) == destroyBody(st, b, rev)

\* target.destroy(): the entity destroys its scripts, which sets
\* RigidBody.destroyed and calls onDestroy; a destroyed entity is not destroyed
\* again.
destroyTarget(st, b, rev) ==
    IF st.destroyed[b] THEN st
    ELSE onDestroy([st EXCEPT !.destroyed[b] = TRUE], b, rev)

\* enable as it would be if disabling also emptied the pending queue
enable_dropsQueue(st, value) ==
    IF st.enabled # value
    THEN IF value
         THEN [st EXCEPT !.enabled = value, !.loops[st.timer] = @ + 1]
         ELSE [st EXCEPT !.enabled = value, !.loops[st.timer] = 0, !.contacts = <<>>]
    ELSE st

\* enable as it would be without the test of the current state
enable_unguarded(st, value) ==
    IF value
    THEN [st EXCEPT !.enabled = value, !.loops[st.timer] = @ + 1]
    ELSE [st EXCEPT !.enabled = value, !.loops[st.timer] = 0]

\* Physics.enable(value).  timer.frameLoop(1, update, this) adds one subscription
\* of update to the timer; timer.clear(update, this) removes update from it.
enable(st, value) ==
    IF st.enabled # value
    THEN IF value
         THEN [st EXCEPT !.enabled = value, !.loops[st.timer] = @ + 1]
         ELSE [st EXCEPT !.enabled = value, !.loops[st.timer] = 0]
    ELSE st


\* Physics.init(timer)
init(st, t) == enable([st EXCEPT !.timer = t], TRUE)

\* inBoundaryArea as it would be if no area meant that nothing is inside
inBoundaryArea_noAreaOutside(pos, onEdge) ==
    IF boundaryArea = NoArea THEN FALSE
    ELSE contains(boundaryArea[1], pos.x, pos.y, onEdge)

\* Physics.inBoundaryArea(pos)
inBoundaryArea(pos, onEdge) ==
    IF boundaryArea = NoArea THEN TRUE
    ELSE contains(boundaryArea[1], pos.x, pos.y, onEdge)

\* the pre-solve handler of the constructor: the value of contact.isEnabled()
\* when it returns (the solver enables every contact before it raises
\* pre-solve).  contact: the user data of fixture A and of fixture B, and the
\* manifold's local normal.
preSolve(contact) ==
    LET data == contact.fixtureA
        normal == contact.normal
    IN  IF data # NoSide
        THEN CASE data = "left" -> ~(normal.x < -50)
               [] data = "right" -> ~(normal.x > 50)
               [] data = "top" -> ~(normal.y < -50)
               [] data = "bottom" -> ~(normal.y > 50)
               [] OTHER -> TRUE
        ELSE TRUE

\* ------------------------------------------------------ category registry
\* the registry as a value
Reg == [map |-> categoryMap, count |-> count]

\* this._categoryMap[name]: the own property, else what Object.prototype
\* gives, else undefined (0)
lookup(map, name) ==
    IF name \in DOMAIN map /\ map[name] # 0 THEN map[name]
    ELSE IF name \in InheritedNames THEN InheritedValue
    ELSE 0

\* ToInt32 of a value of the registry: a function gives NaN, which gives 0
toInt32(v) == IF v = InheritedValue THEN 0 ELSE v

RECURSIVE bitOr(_, _)
\* a | b on numbers that fit 31 bits
bitOr(a, b) ==
    IF a = 0 THEN b
    ELSE IF b = 0 THEN a
    ELSE 2 * bitOr(a \div 2, b \div 2) + (IF a % 2 = 1 \/ b % 2 = 1 THEN 1 ELSE 0)

RECURSIVE bitAnd(_, _)
\* a & b on numbers that fit 31 bits
bitAnd(a, b) ==
    IF a = 0 \/ b = 0 THEN 0
    ELSE 2 * bitAnd(a \div 2, b \div 2) + (IF a % 2 = 1 /\ b % 2 = 1 THEN 1 ELSE 0)

\* Physics.getCategoryBit(category).  arg is a sequence: empty when the
\* argument is absent, else the string.  The result is the registry afterwards
\* and the value returned.
getCategoryBit(reg, arg) ==
    IF arg = <<>> \/ arg[1] = "" THEN [reg |-> reg, value |-> 1]
    ELSE LET name == arg[1]
         IN  IF lookup(reg.map, name) = 0
             THEN [reg |-> [map |-> IF name \in DOMAIN reg.map THEN [reg.map EXCEPT ![name] = 2 ^ reg.count] ELSE reg.map, count |-> reg.count + 1],
                   value |-> 2 ^ reg.count]
             ELSE [reg |-> reg, value |-> lookup(reg.map, name)]

RECURSIVE orBits_sum(_, _, _, _)
\* the loop as it would be if it added the bits up
orBits_sum(reg, names, n, num) ==
    IF n > Len(names) THEN [reg |-> reg, value |-> num]
    ELSE LET r == getCategoryBit(reg, <<names[n]>>)
         IN  orBits_sum(r.reg, names, n + 1, num + toInt32(r.value))

RECURSIVE orBits(_, _, _, _)
\* the for-of loop of getCategoryMask: num |= this.getCategoryBit(name)
orBits(reg, names, n, num) ==
    IF n > Len(names) THEN [reg |-> reg, value |-> num]
    ELSE LET r == getCategoryBit(reg, <<names[n]>>)
         IN  orBits(r.reg, names, n + 1, bitOr(num, toInt32(r.value)))

\* Physics.getCategoryMask(masks).  masks is a sequence: empty when the
\* argument is absent, else the list of names.
getCategoryMask(reg, masks) ==
    IF masks = <<>> \/ Len(masks[1]) = 0 THEN [reg |-> reg, value |-> AcceptAll]
    ELSE orBits(reg, masks[1], 1, 0)

\* ------------------------------------------------------------- fixtures
\* the switch of addShape and what follows it: the body's fixtures afterwards.
\* A fixture is kept as its shape type, its user data (the crossSide tag) and
\* its filter bits.
\* the switch as it would be with a default branch that creates a fixture
createFixture_anyKind(fx, shape, bits, mask) ==
    Append(fx, [shapeType |-> shape.shapeType, crossSide |-> shape.crossSide, categoryBits |-> bits, maskBits |-> mask])

createFixture(fx, shape, bits, mask) ==
    IF shape.shapeType \in {"box", "circle", "edge", "polygon"}
    THEN Append(fx, [shapeType |-> shape.shapeType, crossSide |-> shape.crossSide, categoryBits |-> bits, maskBits |-> mask])
    ELSE fx

\* RigidBody.addShape(shape) of binding b once awaked.  rb is the body's
\* fixtures and the registry; the options are evaluated before the switch.
addShape(rb, b, shape) ==
    LET bit == getCategoryBit(rb.reg, <<category[b]>>)
        mask == getCategoryMask(bit.reg, categoryAccepted[b])
    IN  [fixtures |-> createFixture(rb.fixtures, shape, bit.value, mask.value), reg |-> mask.reg]

RECURSIVE addShapes_reversed(_, _, _, _)
\* the loop as it would be if it took the shapes last to first
addShapes_reversed(rb, b, ss, n) ==
    IF n > Len(ss) THEN rb
    ELSE addShapes_reversed(addShape(rb, b, ss[Len(ss) + 1 - n]), b, ss, n + 1)

RECURSIVE addShapes(_, _, _, _)
\* the for-of loop of onAwake over this.shapes
addShapes(rb, b, ss, n) ==
    IF n > Len(ss) THEN rb
    ELSE addShapes(addShape(rb, b, ss[n]), b, ss, n + 1)

\* planck Body.setType as onAwake uses it: a body made static loses its velocity
setType(vel, type) == IF type = "static" THEN [x |-> 0, y |-> 0] ELSE vel


\* ------------------------------------------------------------ host calls
\* what a host listener may do when an event is delivered to it: nothing,
\* destroy an entity, or physics.enable(false)
Reactions ==
    {[op |-> "none", b |-> RawBody, flag |-> FALSE]}
    \cup [op : {"destroy"}, b : Bindings, flag : BOOLEAN]
    \cup [op : {"enable"}, b : {RawBody}, flag : {FALSE}]

react(st, r) ==
    CASE r.op = "destroy" -> destroyTarget(st, r.b, r.flag)
      [] r.op = "enable" -> enable(st, r.flag)
      [] OTHER -> st

\* physics.enable(value), called by the host between frames
Enable(value) ==
    /\ pc = "idle"
    /\ loops[timer] < MaxLoops
    /\ Commit(enable(St, value))
    /\ lastUpdate' = NoBinding
    /\ lastCall' = <<>>
    /\ UNCHANGED <<categoryVars, bvel, conv>>
    /\ UNCHANGED <<boundaryArea, pc, i, bpos, bkind, bactive, userData, fixtures, rigidType, shapes, scene, awaked, epos, erot, listeners, evals, presolved, thrown>>

\* physics.init(timer)
PhysicsInit(t) ==
    /\ pc = "idle"
    /\ loops[t] < MaxLoops
    /\ Commit(init(St, t))
    /\ lastUpdate' = NoBinding
    /\ lastCall' = <<>>
    /\ UNCHANGED <<categoryVars, bvel, conv>>
    /\ UNCHANGED <<boundaryArea, pc, i, bpos, bkind, bactive, userData, fixtures, rigidType, shapes, scene, awaked, epos, erot, listeners, evals, presolved, thrown>>

\* physics.setBoundaryArea(area)
SetBoundaryArea(area) ==
    /\ pc = "idle"
    /\ boundaryArea' = area
    /\ lastUpdate' = NoBinding
    /\ lastCall' = <<>>
    /\ UNCHANGED <<categoryVars, bvel, conv>>
    /\ UNCHANGED <<enabled, timer, loops, contacts, pc, i, worldVars, scriptVars, entityVars, emitted, evals, presolved, thrown>>

\* the entity of binding b is destroyed by the host (target.destroy())
Destroy(b, rev) ==
    /\ pc = "idle"
    /\ ~destroyed[b]
    /\ Commit(destroyTarget(St, b, rev))
    /\ lastUpdate' = NoBinding
    /\ lastCall' = <<>>
    /\ UNCHANGED <<categoryVars, bvel, conv>>
    /\ UNCHANGED <<boundaryArea, pc, i, bpos, bkind, bactive, userData, fixtures, rigidType, shapes, scene, awaked, epos, erot, listeners, evals, presolved, thrown>>

\* addShape as it would be if it also realized the shape it buffers
AddShape_eager(b, shape) ==
    /\ pc = "idle"
    /\ ~destroyed[b]
    /\ IF ~awaked[b]
       THEN /\ shapes' = [shapes EXCEPT ![b] = Append(@, shape)]
            /\ LET rb == addShape([fixtures |-> fixtures[b], reg |-> Reg], b, shape)
               IN  /\ fixtures' = [fixtures EXCEPT ![b] = rb.fixtures]
                   /\ categoryMap' = rb.reg.map
                   /\ count' = rb.reg.count
       ELSE /\ LET rb == addShape([fixtures |-> fixtures[b], reg |-> Reg], b, shape)
               IN  /\ fixtures' = [fixtures EXCEPT ![b] = rb.fixtures]
                   /\ categoryMap' = rb.reg.map
                   /\ count' = rb.reg.count
            /\ UNCHANGED shapes
    /\ lastUpdate' = NoBinding
    /\ lastCall' = <<[op |-> "addShape", b |-> b, shape |-> <<shape>>, x |-> <<>>, y |-> <<>>]>>
    /\ UNCHANGED <<returned, category, categoryAccepted, bvel, conv>>
    /\ UNCHANGED <<physVars, bodies, touching, bpos, bkind, bactive, userData, rigidType, scene, awaked, destroyed, entityVars, emitted, evals, presolved, thrown>>

\* RigidBody.addShape(shape), called by the host
AddShape(b, shape) ==
    /\ pc = "idle"
    /\ ~destroyed[b]
    /\ IF ~awaked[b]
       THEN /\ shapes' = [shapes EXCEPT ![b] = Append(@, shape)]
            /\ UNCHANGED fixtures
            /\ UNCHANGED <<categoryMap, count>>
       ELSE /\ LET rb == addShape([fixtures |-> fixtures[b], reg |-> Reg], b, shape)
               IN  /\ fixtures' = [fixtures EXCEPT ![b] = rb.fixtures]
                   /\ categoryMap' = rb.reg.map
                   /\ count' = rb.reg.count
            /\ UNCHANGED shapes
    /\ lastUpdate' = NoBinding
    /\ lastCall' = <<[op |-> "addShape", b |-> b, shape |-> <<shape>>, x |-> <<>>, y |-> <<>>]>>
    /\ UNCHANGED <<returned, category, categoryAccepted, bvel, conv>>
    /\ UNCHANGED <<physVars, bodies, touching, bpos, bkind, bactive, userData, rigidType, scene, awaked, destroyed, entityVars, emitted, evals, presolved, thrown>>

\* onAwake as it would be if it tested the scene after it set the body type
Awake_lateCheck(b) ==
    /\ pc = "idle"
    /\ ~awaked[b]
    /\ ~destroyed[b]
    /\ awaked' = [awaked EXCEPT ![b] = TRUE]
    /\ lastUpdate' = NoBinding
    /\ lastCall' = <<>>
    /\ UNCHANGED <<returned, category, categoryAccepted, conv>>
    /\ IF ~scene[b]
       THEN /\ thrown' = "Please add to a scene first"
            /\ bkind' = [bkind EXCEPT ![b] = IF rigidType[b] = "dynamic" THEN "dynamic" ELSE IF rigidType[b] = "static" THEN "static" ELSE @]
            /\ UNCHANGED <<fixtures, bpos, bactive, userData, bvel, categoryMap, count>>
       ELSE /\ thrown' = "none"
            /\ bkind' = [bkind EXCEPT ![b] = IF rigidType[b] = "dynamic" THEN "dynamic" ELSE IF rigidType[b] = "static" THEN "static" ELSE @]
            /\ bvel' = [bvel EXCEPT ![b] = setType(@, rigidType[b])]
            /\ LET rb0 == [fixtures |-> fixtures[b], reg |-> Reg]
                   rb == IF Len(shapes[b]) # 0 THEN addShapes(rb0, b, shapes[b], 1) ELSE addShape(rb0, b, [shapeType |-> "box", crossSide |-> NoSide])
               IN  /\ fixtures' = [fixtures EXCEPT ![b] = rb.fixtures]
                   /\ categoryMap' = rb.reg.map
                   /\ count' = rb.reg.count
            /\ bpos' = [bpos EXCEPT ![b] = [x |-> toPhyPos(toWorldPoint(b, epos[b])).x, y |-> toPhyPos(toWorldPoint(b, epos[b])).y, angle |-> erot[b]]]
            /\ bactive' = [bactive EXCEPT ![b] = TRUE]
            /\ userData' = [userData EXCEPT ![b] = b]
    /\ UNCHANGED <<physVars, bodies, touching, rigidType, shapes, scene, destroyed, entityVars, emitted, evals, presolved>>

\* The script framework awakes the script: it sets awaked and calls onAwake
\* (addShape, called by onAwake, realizes a fixture only when awaked is set).
Awake(b) ==
    /\ pc = "idle"
    /\ ~awaked[b]
    /\ ~destroyed[b]
    /\ awaked' = [awaked EXCEPT ![b] = TRUE]
    /\ lastUpdate' = NoBinding
    /\ lastCall' = <<>>
    /\ UNCHANGED <<returned, category, categoryAccepted, conv>>
    /\ IF ~scene[b]
       THEN /\ thrown' = "Please add to a scene first"
            /\ UNCHANGED <<bkind, fixtures, bpos, bactive, userData, bvel, categoryMap, count>>
       ELSE /\ thrown' = "none"
            /\ bkind' = [bkind EXCEPT ![b] = IF rigidType[b] = "dynamic" THEN "dynamic" ELSE IF rigidType[b] = "static" THEN "static" ELSE @]
            /\ bvel' = [bvel EXCEPT ![b] = setType(@, rigidType[b])]
            /\ LET rb0 == [fixtures |-> fixtures[b], reg |-> Reg]
                   rb == IF Len(shapes[b]) # 0 THEN addShapes(rb0, b, shapes[b], 1) ELSE addShape(rb0, b, [shapeType |-> "box", crossSide |-> NoSide])
               IN  /\ fixtures' = [fixtures EXCEPT ![b] = rb.fixtures]
                   /\ categoryMap' = rb.reg.map
                   /\ count' = rb.reg.count
            /\ bpos' = [bpos EXCEPT ![b] = [x |-> toPhyPos(toWorldPoint(b, epos[b])).x, y |-> toPhyPos(toWorldPoint(b, epos[b])).y, angle |-> erot[b]]]
            /\ bactive' = [bactive EXCEPT ![b] = TRUE]
            /\ userData' = [userData EXCEPT ![b] = b]
    /\ UNCHANGED <<physVars, bodies, touching, rigidType, shapes, scene, destroyed, entityVars, emitted, evals, presolved>>

\* RigidBody.setPosition(x, y)
SetPosition(b, x, y) ==
    /\ pc = "idle"
    /\ ~destroyed[b]
    /\ bpos' = [bpos EXCEPT ![b] = [x |-> toPhyPos([x |-> x, y |-> y]).x, y |-> toPhyPos([x |-> x, y |-> y]).y, angle |-> @.angle]]
    /\ lastUpdate' = NoBinding
    /\ lastCall' = <<>>
    /\ UNCHANGED <<categoryVars, bvel, conv>>
    /\ UNCHANGED <<physVars, bodies, touching, bkind, bactive, userData, fixtures, scriptVars, entityVars, emitted, evals, presolved, thrown>>

\* planck Body.setLinearVelocity(v): a static body keeps its velocity
setLinearVelocity(kind, vel, v) == IF kind = "static" THEN vel ELSE v

\* setVelocity as it would be with || in place of ??
SetVelocity_zeroAbsent(b, x, y) ==
    /\ pc = "idle"
    /\ ~destroyed[b]
    /\ bvel' = [bvel EXCEPT ![b] = setLinearVelocity(bkind[b], @, [x |-> IF x = <<>> \/ x[1] = 0 THEN @.x ELSE x[1], y |-> IF y = <<>> \/ y[1] = 0 THEN @.y ELSE y[1]])]
    /\ lastUpdate' = NoBinding
    /\ lastCall' = <<[op |-> "setVelocity", b |-> b, shape |-> <<>>, x |-> x, y |-> y]>>
    /\ UNCHANGED <<physVars, bodies, touching, bpos, bkind, bactive, userData, fixtures, scriptVars, entityVars, emitted, evals, presolved, thrown, categoryVars, conv>>

\* RigidBody.setVelocity(x, y).  x and y are sequences: empty when the
\* argument is absent, else the number.
SetVelocity(b, x, y) ==
    /\ pc = "idle"
    /\ ~destroyed[b]
    /\ bvel' = [bvel EXCEPT ![b] = setLinearVelocity(bkind[b], @, [x |-> IF x = <<>> THEN @.x ELSE x[1], y |-> IF y = <<>> THEN @.y ELSE y[1]])]
    /\ lastUpdate' = NoBinding
    /\ lastCall' = <<[op |-> "setVelocity", b |-> b, shape |-> <<>>, x |-> x, y |-> y]>>
    /\ UNCHANGED <<physVars, bodies, touching, bpos, bkind, bactive, userData, fixtures, scriptVars, entityVars, emitted, evals, presolved, thrown, categoryVars, conv>>

\* the entity of binding b is added to a scene (value) or is in none (~value)
SetScene(b, value) ==
    /\ pc = "idle"
    /\ scene[b] # value
    /\ scene' = [scene EXCEPT ![b] = value]
    /\ lastUpdate' = NoBinding
    /\ lastCall' = <<>>
    /\ UNCHANGED <<physVars, worldVars, rigidType, shapes, awaked, destroyed, entityVars, emitted, evals, presolved, thrown, categoryVars, bvel, conv>>

\* the host has a number (a sequence of one double) or a point (of two)
Measure(v) ==
    /\ conv = <<>>
    /\ conv' = <<[op |-> "input", v |-> v]>>
    /\ lastUpdate' = NoBinding
    /\ lastCall' = <<>>
    /\ UNCHANGED <<physVars, worldVars, scriptVars, entityVars, emitted, evals, presolved, thrown, categoryVars, bvel>>

\* the host calls toPhy, to2D, toPhyPos or to2DPos on the number or point it
\* got last
Convert(op) ==
    /\ conv # <<>>
    /\ Len(conv) <= MaxTrip
    /\ LET v == conv[Len(conv)].v
           pos == [x |-> v[1], y |-> v[2]]
       IN  CASE op = "toPhy" -> Len(v) = 1 /\ conv' = Append(conv, [op |-> op, v |-> <<toPhy64(v[1])>>])
             [] op = "to2D" -> Len(v) = 1 /\ conv' = Append(conv, [op |-> op, v |-> <<to2D64(v[1])>>])
             [] op = "toPhyPos" -> Len(v) = 2 /\ conv' = Append(conv, [op |-> op, v |-> <<toPhyPos64(pos).x, toPhyPos64(pos).y>>])
             [] op = "to2DPos" -> Len(v) = 2 /\ conv' = Append(conv, [op |-> op, v |-> <<to2DPos64(pos).x, to2DPos64(pos).y>>])
    /\ lastUpdate' = NoBinding
    /\ lastCall' = <<>>
    /\ UNCHANGED <<physVars, worldVars, scriptVars, entityVars, emitted, evals, presolved, thrown, categoryVars, bvel>>

\* physics.getCategoryBit(arg), called by the host
GetCategoryBit(arg) ==
    /\ pc = "idle"
    /\ LET r == getCategoryBit(Reg, arg)
       IN  /\ r.reg.count <= MaxNames + 1
           /\ categoryMap' = r.reg.map
           /\ count' = r.reg.count
           /\ returned' = <<[op |-> "bit", name |-> arg, list |-> <<>>, value |-> r.value,
                             had |-> IF arg = <<>> THEN 0 ELSE lookup(categoryMap, arg[1]), before |-> count]>>
    /\ lastUpdate' = NoBinding
    /\ lastCall' = <<>>
    /\ UNCHANGED <<physVars, worldVars, scriptVars, entityVars, emitted, evals, presolved, thrown, category, categoryAccepted, bvel, conv>>

\* physics.getCategoryMask(masks), called by the host
GetCategoryMask(masks) ==
    /\ pc = "idle"
    /\ LET r == getCategoryMask(Reg, masks)
       IN  /\ r.reg.count <= MaxNames + 1
           /\ categoryMap' = r.reg.map
           /\ count' = r.reg.count
           /\ returned' = <<[op |-> "mask", name |-> <<>>, list |-> masks, value |-> r.value, had |-> 0, before |-> count]>>
    /\ lastUpdate' = NoBinding
    /\ lastCall' = <<>>
    /\ UNCHANGED <<physVars, worldVars, scriptVars, entityVars, emitted, evals, presolved, thrown, category, categoryAccepted, bvel, conv>>

\* the host assigns rigidBody.category
SetCategory(b, name) ==
    /\ pc = "idle"
    /\ category[b] # name
    /\ category' = [category EXCEPT ![b] = name]
    /\ lastUpdate' = NoBinding
    /\ lastCall' = <<>>
    /\ UNCHANGED <<physVars, worldVars, scriptVars, entityVars, emitted, evals, presolved, thrown, categoryMap, count, returned, categoryAccepted, bvel, conv>>

\* the host assigns rigidBody.categoryAccepted an array of names (or undefined)
SetCategoryAccepted(b, value) ==
    /\ pc = "idle"
    /\ categoryAccepted[b] # value
    /\ categoryAccepted' = [categoryAccepted EXCEPT ![b] = value]
    /\ lastUpdate' = NoBinding
    /\ lastCall' = <<>>
    /\ UNCHANGED <<physVars, worldVars, scriptVars, entityVars, emitted, evals, presolved, thrown, categoryMap, count, returned, category, bvel, conv>>

\* onUpdate without the early return for static bindings
OnUpdate_noStaticReturn(b, onEdge, rev) ==
    /\ pc = "idle"
    /\ awaked[b]
    /\ ~destroyed[b]
    /\ lastUpdate' = b
    /\ lastCall' = <<>>
    /\ UNCHANGED <<categoryVars, bvel, conv>>
    /\ LET pos2D == to2DPos(bpos[b])
       IN  IF ~inBoundaryArea(pos2D, onEdge)
           THEN /\ Commit(destroyTarget(St, b, rev))
                /\ UNCHANGED <<boundaryArea, pc, i, bpos, bkind, bactive, userData, fixtures, rigidType, shapes, scene, awaked, epos, erot, listeners, evals, presolved, thrown>>
           ELSE LET local == IF ~parentIsScene(b) THEN toLocalPoint(b, pos2D) ELSE pos2D
                IN  /\ epos' = [epos EXCEPT ![b] = [x |-> local.x + pivot[b].x, y |-> local.y + pivot[b].y]]
                    /\ erot' = [erot EXCEPT ![b] = bpos[b].angle]
                    /\ UNCHANGED <<physVars, worldVars, scriptVars, listeners, emitted, evals, presolved, thrown>>

\* RigidBody.onUpdate, called by the script framework every frame on an
\* awaked script that is not destroyed
OnUpdate(b, onEdge, rev) ==
    /\ pc = "idle"
    /\ awaked[b]
    /\ ~destroyed[b]
    /\ lastUpdate' = b
    /\ lastCall' = <<>>
    /\ UNCHANGED <<categoryVars, bvel, conv>>
    /\ IF rigidType[b] = "static"
       THEN UNCHANGED <<physVars, worldVars, scriptVars, entityVars, emitted, evals, presolved, thrown>>
       ELSE LET pos == bpos[b]
                pos2D == to2DPos(pos)
            IN  IF ~inBoundaryArea(pos2D, onEdge)
                THEN /\ Commit(destroyTarget(St, b, rev))
                     /\ UNCHANGED <<boundaryArea, pc, i, bpos, bkind, bactive, userData, fixtures, rigidType, shapes, scene, awaked, epos, erot, listeners, evals, presolved, thrown>>
                ELSE LET local == IF ~parentIsScene(b) THEN toLocalPoint(b, pos2D) ELSE pos2D
                     IN  /\ epos' = [epos EXCEPT ![b] = [x |-> local.x + pivot[b].x, y |-> local.y + pivot[b].y]]
                         /\ erot' = [erot EXCEPT ![b] = bpos[b].angle]
                         /\ UNCHANGED <<physVars, worldVars, scriptVars, listeners, emitted, evals, presolved, thrown>>


\* ------------------------------------------------------- Physics.update
\* the event name with the two kinds exchanged
eventName_swapped(type) == IF type # 0 THEN "collisionStart" ELSE "collisionEnd"

\* const type = contacts[i] ? "collisionEnd" : "collisionStart"
eventName(type) == IF type # 0 THEN "collisionEnd" ELSE "collisionStart"

\* the delivery test without the destroyed flag
shouldEmit_ignoreDestroyed(st, rigidBody, type) ==
    IF rigidBody = NoBinding THEN FALSE ELSE type \in listeners[rigidBody]

\* !rigidBody?.destroyed && rigidBody?.target.hasListener(type)
shouldEmit(st, rigidBody, type) ==
    LET notDestroyed == IF rigidBody = NoBinding THEN TRUE ELSE ~st.destroyed[rigidBody]
        hasListener == IF rigidBody = NoBinding THEN FALSE ELSE type \in listeners[rigidBody]
    IN  notDestroyed /\ hasListener

\* emit with the receiving side passed as other
emit_self(st, rigidBody, type, other, at) ==
    [st EXCEPT !.emitted = Append(@, [to |-> rigidBody, type |-> type, other |-> rigidBody, at |-> at, live |-> ~st.destroyed[rigidBody]])]

\* rigidBody.target.emit(type, {other, contact}); at is the queue index of the
\* entry, live whether the receiving binding is not destroyed as it receives
emit(st, rigidBody, type, other, at) ==
    [st EXCEPT !.emitted = Append(@, [to |-> rigidBody, type |-> type, other |-> other, at |-> at, live |-> ~st.destroyed[rigidBody]])]

\* the frame scheduler calls update(): world.step(...) is entered
StepBegin ==
    /\ pc = "idle"
    /\ \E t \in Timers : loops[t] > 0
    /\ pc' = "solving"
    /\ lastUpdate' = NoBinding
    /\ lastCall' = <<>>
    /\ UNCHANGED <<categoryVars, bvel, conv>>
    /\ UNCHANGED <<enabled, timer, loops, boundaryArea, contacts, i, worldVars, scriptVars, entityVars, emitted, evals, presolved, thrown>>

\* two bodies can collide: both in the world, active, with a fixture, one dynamic
CanTouch(a, b) ==
    /\ a # b
    /\ {a, b} \subseteq bodies
    /\ bactive[a] /\ bactive[b]
    /\ Len(fixtures[a]) > 0 /\ Len(fixtures[b]) > 0
    /\ bkind[a] = "dynamic" \/ bkind[b] = "dynamic"

\* inside world.step the solver finds a contact touching: begin-contact
SolverBeginContact(a, b) ==
    /\ pc = "solving"
    /\ CanTouch(a, b)
    /\ <<a, b>> \notin touching /\ <<b, a>> \notin touching
    /\ Len(contacts) < 2 * MaxQueue
    /\ Commit(onContact([St EXCEPT !.touching = @ \cup {<<a, b>>}], 0, <<a, b>>))
    /\ lastUpdate' = NoBinding
    /\ lastCall' = <<>>
    /\ UNCHANGED <<categoryVars, bvel, conv>>
    /\ UNCHANGED <<boundaryArea, pc, i, bpos, bkind, bactive, userData, fixtures, rigidType, shapes, scene, awaked, epos, erot, listeners, evals, presolved, thrown>>

\* inside world.step the solver finds a contact no longer touching: end-contact
SolverEndContact(c) ==
    /\ pc = "solving"
    /\ c \in touching
    /\ Len(contacts) < 2 * MaxQueue
    /\ Commit(onContact([St EXCEPT !.touching = @ \ {c}], 1, c))
    /\ lastUpdate' = NoBinding
    /\ lastCall' = <<>>
    /\ UNCHANGED <<categoryVars, bvel, conv>>
    /\ UNCHANGED <<boundaryArea, pc, i, bpos, bkind, bactive, userData, fixtures, rigidType, shapes, scene, awaked, epos, erot, listeners, evals, presolved, thrown>>

\* inside world.step the solver raises pre-solve for a touching contact between
\* fixture fa of body A and fixture fb of body B
SolverPreSolve(c, fa, fb, normal) ==
    /\ pc = "solving"
    /\ c \in touching
    /\ fa \in 1..Len(fixtures[c[1]])
    /\ fb \in 1..Len(fixtures[c[2]])
    /\ LET contact == [fixtureA |-> fixtures[c[1]][fa].crossSide, fixtureB |-> fixtures[c[2]][fb].crossSide, normal |-> normal]
       IN  presolved' = <<[contact |-> contact, enabled |-> preSolve(contact)]>>
    /\ lastUpdate' = NoBinding
    /\ lastCall' = <<>>
    /\ UNCHANGED <<categoryVars, bvel, conv>>
    /\ UNCHANGED <<physVars, worldVars, scriptVars, entityVars, emitted, evals, thrown>>

\* inside world.step the solver moves a body that is not static
SolverMove(b, pose) ==
    /\ pc = "solving"
    /\ b \in bodies
    /\ bactive[b]
    /\ bkind[b] # "static"
    /\ bpos[b] # pose
    /\ bpos' = [bpos EXCEPT ![b] = pose]
    /\ lastUpdate' = NoBinding
    /\ lastCall' = <<>>
    /\ UNCHANGED <<categoryVars, bvel, conv>>
    /\ UNCHANGED <<physVars, bodies, touching, bkind, bactive, userData, fixtures, scriptVars, entityVars, emitted, evals, presolved, thrown>>

\* world.step returns; the for loop starts with i = 0
SolverReturn ==
    /\ pc = "solving"
    /\ pc' = "draining"
    /\ i' = 0
    /\ lastUpdate' = NoBinding
    /\ lastCall' = <<>>
    /\ UNCHANGED <<categoryVars, bvel, conv>>
    /\ UNCHANGED <<enabled, timer, loops, boundaryArea, contacts, worldVars, scriptVars, entityVars, emitted, evals, presolved, thrown>>

\* one iteration of the for loop of update(): the entry at i, i + 1.  rA and rB
\* are what the listeners of side A and of side B do when they are called.
DrainOne(rA, rB) ==
    /\ pc = "draining"
    /\ i < Len(contacts)
    /\ LET type == eventName(contacts[i + 1])
           contact == contacts[i + 2]
           rigidBodyA == userData[contact[1]]
           rigidBodyB == userData[contact[2]]
           fireA == shouldEmit(St, rigidBodyA, type)
           stA == IF fireA THEN react(emit(St, rigidBodyA, type, rigidBodyB, i), rA) ELSE St
           fireB == shouldEmit(stA, rigidBodyB, type)
           stB == IF fireB THEN react(emit(stA, rigidBodyB, type, rigidBodyA, i), rB) ELSE stA
           gone(st, rb) == IF rb = NoBinding THEN FALSE ELSE st.destroyed[rb]
           heard(rb) == IF rb = NoBinding THEN FALSE ELSE type \in listeners[rb]
       IN  /\ ~fireA => rA.op = "none"
           /\ ~fireB => rB.op = "none"
           /\ \A t \in Timers : stB.loops[t] <= MaxLoops
           /\ Commit(stB)
           /\ evals' = Append(evals, [at |-> i, kind |-> contacts[i + 1], a |-> rigidBodyA, b |-> rigidBodyB,
                                      aGone |-> gone(St, rigidBodyA), bGone0 |-> gone(St, rigidBodyB), bGone |-> gone(stA, rigidBodyB),
                                      aHeard |-> heard(rigidBodyA), bHeard |-> heard(rigidBodyB),
                                      firedA |-> fireA, firedB |-> fireB, off |-> ~stB.enabled])
    /\ i' = i + 2
    /\ lastUpdate' = NoBinding
    /\ lastCall' = <<>>
    /\ UNCHANGED <<categoryVars, bvel, conv>>
    /\ UNCHANGED <<boundaryArea, pc, bpos, bkind, bactive, userData, fixtures, rigidType, shapes, scene, awaked, epos, erot, listeners, presolved, thrown>>

\* the for loop ends: contacts.length = 0, and update() returns
DrainEnd ==
    /\ pc = "draining"
    /\ ~(i < Len(contacts))
    /\ contacts' = <<>>
    /\ pc' = "idle"
    /\ i' = 0
    /\ emitted' = <<>>
    /\ evals' = <<>>
    /\ lastUpdate' = NoBinding
    /\ lastCall' = <<>>
    /\ UNCHANGED <<categoryVars, bvel, conv>>
    /\ UNCHANGED <<enabled, timer, loops, boundaryArea, worldVars, scriptVars, entityVars, presolved, thrown>>

\* ---------------------------------------------------------- specification
HostPixels == {[x |-> 5000, y |-> 5000], [x |-> 15000, y |-> 5000]}

Next ==
    \/ \E value \in BOOLEAN : Enable(value)
    \/ \E area \in Areas \cup {NoArea} : SetBoundaryArea(area)
    \/ \E b \in Bindings, rev \in BOOLEAN : Destroy(b, rev)
    \/ \E b \in Bindings : Awake(b)
    \/ \E b \in Bindings, onEdge \in BOOLEAN, rev \in BOOLEAN : OnUpdate(b, onEdge, rev)
    \/ StepBegin
    \/ \E a \in Bodies, b \in Bodies : SolverBeginContact(a, b)
    \/ \E c \in touching : SolverEndContact(c)
    \/ SolverReturn
    \/ \E rA \in Reactions, rB \in Reactions : DrainOne(rA, rB)
    \/ DrainEnd

\* every binding was constructed with rigidType "dynamic"
InitDynamic == Init /\ rigidType = [b \in Bindings |-> "dynamic"]

\* Contact dispatch: dynamic bindings; entity 1 listens to both events
InitContacts == InitDynamic /\ listeners[1] = EventTypes

Spec == InitContacts /\ [][Next]_vars


\* Transform synchronisation: bindings of every rigid type, moved by the
\* solver and by setPosition, updated every frame; no entity has a listener.
InitSync == Init /\ listeners = [b \in Bindings |-> {}]

NextSync ==
    \/ Enable(TRUE)
    \/ \E area \in Areas \cup {NoArea} : SetBoundaryArea(area)
    \/ \E b \in Bindings : Awake(b)
    \/ \E b \in Bindings, p \in HostPixels : SetPosition(b, p.x, p.y)
    \/ \E b \in Bindings, onEdge \in BOOLEAN, rev \in BOOLEAN : OnUpdate(b, onEdge, rev)
    \/ StepBegin
    \/ \E b \in Bindings, pose \in SimPoses : SolverMove(b, pose)
    \/ SolverReturn
    \/ DrainEnd

SpecSync == InitSync /\ [][NextSync]_vars

\* One-way platforms: shapes with a crossSide tag, realized as fixtures, and
\* the pre-solve notifications of their contacts.
ShapeDescs == [shapeType : {"box"}, crossSide : CrossSides \cup {NoSide}]

InitPreSolve == InitDynamic /\ listeners = [b \in Bindings |-> {}]

NextPreSolve ==
    \/ Enable(TRUE)
    \/ \E b \in Bindings, shape \in ShapeDescs : ~awaked[b] /\ Len(shapes[b]) < MaxShapes /\ AddShape(b, shape)
    \/ \E b \in Bindings : Awake(b)
    \/ StepBegin
    \/ \E a \in Bodies, b \in Bodies : SolverBeginContact(a, b)
    \/ \E c \in touching, fa \in 1..(MaxShapes + 1), fb \in 1..(MaxShapes + 1), normal \in Normals : SolverPreSolve(c, fa, fb, normal)

SpecPreSolve == InitPreSolve /\ [][NextPreSolve]_vars


\* Collision categories: the host asks for bits and masks, in any order, and
\* configures and awakes binding 1.
NameArgs == {<<>>, <<"">>, <<"hero">>, <<"enemy">>, <<"toString">>, <<FreshName>>}

MaskArgs == {<<>>, <<<<>>>>, <<<<"hero">>>>, <<<<"hero", "enemy">>>>, <<<<"enemy", "hero">>>>, <<<<"hero", "enemy", "hero">>>>, <<<<"enemy", "toString">>>>}

InitCategory == InitDynamic /\ listeners = [b \in Bindings |-> {}]

NextCategory ==
    \/ \E arg \in NameArgs : GetCategoryBit(arg)
    \/ \E masks \in MaskArgs : GetCategoryMask(masks)
    \/ \E name \in {"", "hero"} : ~awaked[1] /\ SetCategory(1, name)
    \/ \E value \in {<<>>, <<<<"enemy">>>>} : ~awaked[1] /\ SetCategoryAccepted(1, value)
    \/ Awake(1)

SpecCategory == InitCategory /\ [][NextCategory]_vars


\* Shapes and activation: the host buffers shapes on binding 1 and adds shapes
\* to it once it is awaked; entities are in a scene or not when their scripts
\* are awaked.
ShapeInputs == {[shapeType |-> "box", crossSide |-> NoSide], [shapeType |-> "circle", crossSide |-> "top"], [shapeType |-> "star", crossSide |-> NoSide]}

InitShapes == Init /\ listeners = [b \in Bindings |-> {}]

NextShapes ==
    \/ \E shape \in ShapeInputs : Len(shapes[1]) < MaxBuffered /\ Len(fixtures[1]) <= MaxBuffered /\ AddShape(1, shape)
    \/ \E b \in Bindings, value \in BOOLEAN : ~awaked[b] /\ SetScene(b, value)
    \/ \E b \in Bindings : Awake(b)

SpecShapes == InitShapes /\ [][NextShapes]_vars

\* Velocities: the host sets velocities of bindings of every rigid type, before
\* and after they are awaked.
VelocityArgs == {<<>>, <<0>>, <<300>>}

NextVelocity ==
    \/ \E b \in Bindings, x \in VelocityArgs, y \in VelocityArgs : SetVelocity(b, x, y)
    \/ \E b \in Bindings : Awake(b)

SpecVelocity == InitShapes /\ [][NextVelocity]_vars


\* Schedulers: the host calls init and enable with either timer, scripts are
\* awaked and frames run.
NextTimers ==
    \/ \E value \in BOOLEAN : Enable(value)
    \/ \E b \in Bindings : Awake(b)
    \/ \E t \in Timers : PhysicsInit(t)
    \/ StepBegin
    \/ SolverReturn
    \/ DrainEnd

SpecTimers == InitPreSolve /\ [][NextTimers]_vars


\* Conversions: the host runs lengths and points through the conversions.
Lengths == {<<fromInt(0)>>, <<fromInt(50)>>, <<fromInt(100)>>, <<fromInt(7)>>, <<fromInt(0 - 29)>>, <<divDouble(fromInt(1), 3)>>, <<divDouble(fromInt(5), 60)>>}

Points == {<<fromInt(100), fromInt(200)>>, <<fromInt(7), fromInt(640)>>, <<fromInt(0 - 14), fromInt(55)>>}

NextConvert ==
    \/ \E v \in Lengths \cup Points : Measure(v)
    \/ \E op \in {"toPhy", "to2D", "toPhyPos", "to2DPos"} : Convert(op)

SpecConvert == InitPreSolve /\ [][NextConvert]_vars


\* ============================================================ properties
\* the events emitted for the queue entry at index k, as <<to, type, other>>
EventsAt(k) ==
    LET es == SelectSeq(emitted, LAMBDA e : e.at = k)
    IN  [n \in 1..Len(es) |-> <<es[n].to, es[n].type, es[n].other>>]

\* C1: while the solver call of update() runs, no event is emitted, and every
\* begin-contact (end-contact) it raises only appends the pair 0, contact
\* (1, contact) to the pending queue.
C1_DeferredDispatch ==
    [][pc = "solving" =>
          /\ emitted = <<>> /\ emitted' = <<>>
          /\ evals' = evals
          /\ touching' = touching => contacts' = contacts
          /\ touching' # touching =>
                \E c \in touching \cup touching' :
                    \/ c \notin touching /\ touching' = touching \cup {c} /\ contacts' = contacts \o <<0, c>>
                    \/ c \in touching /\ touching' = touching \ {c} /\ contacts' = contacts \o <<1, c>>]_vars

\* C1 witness: inside the solver call a begin-contact is queued whose side A
\* is a live binding with a collisionStart listener, and nothing was emitted.
C1_Witness ==
    /\ pc = "solving"
    /\ Len(contacts) >= 2
    /\ contacts[1] = 0
    /\ userData[contacts[2][1]] \in Bindings
    /\ ~destroyed[userData[contacts[2][1]]]
    /\ "collisionStart" \in listeners[userData[contacts[2][1]]]
    /\ emitted = <<>>

\* C2 as stated: a drained entry whose two bindings exist, are not destroyed
\* when the drain reaches the entry and both have a listener for its event
\* name yields exactly two events, one to each side, each naming the other.
C2_TwoEvents_AsStated ==
    \A n \in DOMAIN evals :
        LET e == evals[n] IN
        (e.a # NoBinding /\ e.b # NoBinding /\ ~e.aGone /\ ~e.bGone0 /\ e.aHeard /\ e.bHeard)
            => EventsAt(e.at) = <<<<e.a, IF e.kind = 0 THEN "collisionStart" ELSE "collisionEnd", e.b>>,
                                  <<e.b, IF e.kind = 0 THEN "collisionStart" ELSE "collisionEnd", e.a>>>>

\* C2 amended: the same, when each binding is not destroyed at the moment its
\* own side is evaluated (side A when the drain reaches the entry, side B
\* after the listeners of side A have returned).
C2_TwoEvents ==
    \A n \in DOMAIN evals :
        LET e == evals[n] IN
        (e.a # NoBinding /\ e.b # NoBinding /\ ~e.aGone /\ ~e.bGone /\ e.aHeard /\ e.bHeard)
            => EventsAt(e.at) = <<<<e.a, IF e.kind = 0 THEN "collisionStart" ELSE "collisionEnd", e.b>>,
                                  <<e.b, IF e.kind = 0 THEN "collisionStart" ELSE "collisionEnd", e.a>>>>

\* C2 witness: a begin-contact between two live bindings with listeners was
\* drained and two events were emitted for it.
C2_Witness ==
    \E n \in DOMAIN evals :
        /\ evals[n].kind = 0
        /\ evals[n].a # NoBinding /\ evals[n].b # NoBinding
        /\ evals[n].firedA /\ evals[n].firedB
        /\ Len(EventsAt(evals[n].at)) = 2

\* C3: each side of a drained entry receives an event exactly when its
\* binding exists, is not destroyed when the side is evaluated and has a
\* listener for the event name, whatever the other side is; no event is ever
\* received by a destroyed binding.
C3_SidesIndependent ==
    /\ \A n \in DOMAIN evals :
          LET e == evals[n]
              name == IF e.kind = 0 THEN "collisionStart" ELSE "collisionEnd"
              toA == IF e.a # NoBinding /\ ~e.aGone /\ e.aHeard THEN <<<<e.a, name, e.b>>>> ELSE <<>>
              toB == IF e.b # NoBinding /\ ~e.bGone /\ e.bHeard THEN <<<<e.b, name, e.a>>>> ELSE <<>>
          IN  /\ e.firedA <=> (e.a # NoBinding /\ ~e.aGone /\ e.aHeard)
              /\ e.firedB <=> (e.b # NoBinding /\ ~e.bGone /\ e.bHeard)
              /\ EventsAt(e.at) = toA \o toB
    /\ \A n \in DOMAIN emitted : emitted[n].live

\* C3 witness: side B was destroyed by the listener of side A of the same
\* entry; A received its event and B, which has a listener, received none.
C3_Witness ==
    \E n \in DOMAIN evals :
        /\ evals[n].firedA /\ ~evals[n].firedB
        /\ evals[n].b # NoBinding /\ evals[n].bHeard
        /\ ~evals[n].bGone0 /\ evals[n].bGone

\* C4: the drain takes the queue entries in index order, each once; when the
\* loop ends every entry of the queue was taken; every event comes from the
\* entry at its index, as collisionStart for kind 0 and collisionEnd for kind
\* 1; events are emitted in queue order.
C4_FifoDrain ==
    /\ \A n \in DOMAIN evals : evals[n].at = 2 * (n - 1) /\ evals[n].kind = contacts[2 * n - 1]
    /\ pc = "draining" => i = 2 * Len(evals)
    /\ (pc = "draining" /\ ~(i < Len(contacts))) => 2 * Len(evals) = Len(contacts)
    /\ \A n \in DOMAIN emitted :
          /\ emitted[n].at + 2 <= Len(contacts)
          /\ emitted[n].type = (IF contacts[emitted[n].at + 1] = 0 THEN "collisionStart" ELSE "collisionEnd")
          /\ {emitted[n].to, emitted[n].other} = {userData[contacts[emitted[n].at + 2][1]], userData[contacts[emitted[n].at + 2][2]]}
    /\ \A m, n \in DOMAIN emitted : m < n => emitted[m].at <= emitted[n].at

\* C4 witness: a drain has finished a queue of at least two notifications, a
\* begin and an end, and emitted a collisionStart and then a collisionEnd.
C4_Witness ==
    /\ pc = "draining"
    /\ ~(i < Len(contacts))
    /\ Len(contacts) >= 4
    /\ \E m, n \in DOMAIN emitted : m < n /\ emitted[m].type = "collisionStart" /\ emitted[n].type = "collisionEnd"


\* C5 as stated: whenever update() is not running the pending queue is empty.
C5_QueueEmptyBetweenSteps == pc = "idle" => contacts = <<>>

\* C6 as stated: no step taken inside the drain loop changes the pending
\* queue.
C6_QueueFixedDuringDrain == [][(pc = "draining" /\ pc' = "draining") => contacts' = contacts]_vars

\* the normal crosses the threshold of a side tag
Crosses(side, normal) ==
    \/ side = "left" /\ normal.x < -50
    \/ side = "right" /\ normal.x > 50
    \/ side = "top" /\ normal.y < -50
    \/ side = "bottom" /\ normal.y > 50

\* C7 as stated: after the pre-solve handler the contact is disabled exactly
\* when fixture A or fixture B carries a side tag whose threshold the local
\* normal crosses.
C7_EitherFixtureDisables ==
    \A n \in DOMAIN presolved :
        LET c == presolved[n].contact
        IN  ~presolved[n].enabled <=> (Crosses(c.fixtureA, c.normal) \/ Crosses(c.fixtureB, c.normal))

\* the pixel position of body b lies strictly outside / strictly inside the
\* configured area
OutsideArea(b) ==
    LET area == boundaryArea[1]
    IN  \/ bpos[b].x * 50 < area.x
        \/ bpos[b].x * 50 > area.x + area.width
        \/ bpos[b].y * 50 < area.y
        \/ bpos[b].y * 50 > area.y + area.height

InsideArea(b) ==
    LET area == boundaryArea[1]
    IN  /\ bpos[b].x * 50 > area.x
        /\ bpos[b].x * 50 < area.x + area.width
        /\ bpos[b].y * 50 > area.y
        /\ bpos[b].y * 50 < area.y + area.height

\* C8: an onUpdate of a non-static binding whose body lies outside the
\* configured area destroys the entity (and removes its body from the world)
\* and writes no position or rotation; an onUpdate of a binding inside the
\* area, or with no area configured, destroys nothing.
C8_BoundaryCulling ==
    [][\A b \in Bindings : lastUpdate' = b =>
          /\ (rigidType[b] # "static" /\ boundaryArea # NoArea /\ OutsideArea(b))
                => (destroyed'[b] /\ b \notin bodies' /\ epos' = epos /\ erot' = erot)
          /\ (boundaryArea # NoArea /\ InsideArea(b)) => (destroyed' = destroyed /\ bodies' = bodies)
          /\ boundaryArea = NoArea => (destroyed' = destroyed /\ bodies' = bodies)]_vars

\* C8 witness: the last operation was an onUpdate that destroyed a non-static
\* binding outside the configured area.
C8_Witness ==
    \E b \in Bindings :
        /\ lastUpdate = b
        /\ rigidType[b] # "static"
        /\ boundaryArea # NoArea
        /\ OutsideArea(b)
        /\ destroyed[b]

\* C9: an onUpdate of a static binding changes nothing.
C9_StaticNeverSynced ==
    [][\A b \in Bindings : (lastUpdate' = b /\ rigidType[b] = "static") =>
          UNCHANGED <<physVars, worldVars, scriptVars, entityVars, emitted, evals, presolved, thrown>>]_vars

\* C9 witness: the last operation was an onUpdate of a static binding whose
\* body lies outside the configured area and away from where the entity is;
\* the entity is neither destroyed nor moved.
C9_Witness ==
    \E b \in Bindings :
        /\ lastUpdate = b
        /\ rigidType[b] = "static"
        /\ boundaryArea # NoArea
        /\ OutsideArea(b)
        /\ ~destroyed[b]
        /\ toWorldPoint(b, epos[b]) # [x |-> bpos[b].x * 50, y |-> bpos[b].y * 50]

\* C10: enabled changes only between false and true with the matching
\* subscription change, a step that leaves enabled alone leaves the
\* subscriptions alone, and update is subscribed once on the timer when
\* enabled and not at all when not.
C10_EnableIdempotent ==
    [][/\ enabled' = enabled => loops' = loops
       /\ (~enabled /\ enabled') => loops' = [loops EXCEPT ![timer] = @ + 1]
       /\ (enabled /\ ~enabled') => loops' = [loops EXCEPT ![timer] = 0]
       /\ \A t \in Timers : loops'[t] = (IF enabled' /\ t = timer' THEN 1 ELSE 0)]_vars

\* C10 witness: physics was enabled and then disabled again while an update
\* was running; nothing is subscribed.
C10_Witness ==
    /\ pc = "draining"
    /\ ~enabled
    /\ \A t \in Timers : loops[t] = 0


\* C11 as stated: a getCategoryBit call with no name or the empty name returns
\* 1 and leaves the registry alone; a call with a name returns a power of two
\* from 2 on, the value the name already had, or else 2 ^ count for a name
\* used for the first time; no two names hold the same bit.
C11_BitStableInjective ==
    [][(returned' # returned /\ returned'[1].op = "bit") =>
          LET r == returned'[1]
          IN  /\ (r.name = <<>> \/ r.name[1] = "") => (r.value = 1 /\ count' = count /\ categoryMap' = categoryMap)
              /\ (r.name # <<>> /\ r.name[1] # "") =>
                    /\ \E k \in 1..(MaxNames + 1) : r.value = 2 ^ k
                    /\ r.had # 0 => (r.value = r.had /\ count' = count /\ categoryMap' = categoryMap)
                    /\ r.had = 0 => (r.value = 2 ^ count /\ count' = count + 1)
              /\ \A m, n \in DOMAIN categoryMap' : (m # n /\ categoryMap'[m] # 0) => categoryMap'[m] # categoryMap'[n]]_vars

\* bit k of the number v
HasBit(v, k) == (v \div (2 ^ k)) % 2 = 1

\* the names of a list
NamesOf(list) == {list[n] : n \in DOMAIN list}

\* C12: getCategoryMask of no list or of the empty list is 65535; of a list of
\* names it is the number whose bits are exactly the bits of what
\* getCategoryBit returns afterwards for the names of the list; two lists
\* with the same names, in any order and with any repetition, give the same
\* mask.
C12_MaskIsOrOfBits ==
    /\ \A n \in DOMAIN returned : returned[n].op = "mask" =>
          LET r == returned[n]
          IN  IF r.list = <<>> \/ Len(r.list[1]) = 0 THEN r.value = AcceptAll
              ELSE /\ r.value >= 0
                   /\ r.value < 2 ^ (MaxNames + 4)
                   /\ \A k \in 0..(MaxNames + 3) :
                         HasBit(r.value, k) <=> \E name \in NamesOf(r.list[1]) : HasBit(toInt32(getCategoryBit(Reg, <<name>>).value), k)
    /\ \A m1, m2 \in MaskArgs :
          (m1 # <<>> /\ m2 # <<>> /\ NamesOf(m1[1]) = NamesOf(m2[1])) => getCategoryMask(Reg, m1).value = getCategoryMask(Reg, m2).value

\* C12 witness: the host asked for the mask of a list that names two
\* categories, one of them twice, and got the two bits of the categories.
C12_Witness ==
    /\ returned # <<>>
    /\ returned[1].op = "mask"
    /\ returned[1].list # <<>>
    /\ Len(returned[1].list[1]) = 3
    /\ Cardinality(NamesOf(returned[1].list[1])) = 2
    /\ returned[1].value = categoryMap["hero"] + categoryMap["enemy"]
    /\ categoryMap["hero"] > categoryMap["enemy"]

\* C13 as stated: as long as at most 16 names were given a bit, every bit
\* that getCategoryBit returns lies inside the mask of no list.
C13_BitsInsideAcceptAll ==
    (count - 1 <= 16) =>
        \A n \in DOMAIN returned : (returned[n].op = "bit" /\ returned[n].value # InheritedValue) =>
            bitAnd(returned[n].value, getCategoryMask(Reg, <<>>).value) = returned[n].value


\* C14: a binding that is not awaked has no fixture; an addShape call on it
\* appends the shape to the end of its shape list and creates no fixture; an
\* addShape call on an awaked binding with a shape of a known kind appends one
\* fixture of that shape to the body at once and buffers nothing.
C14_BufferBeforeAwake ==
    [][\A b \in Bindings :
          /\ ~awaked[b] => fixtures[b] = <<>>
          /\ ~awaked'[b] => fixtures'[b] = <<>>
          /\ (lastCall' # <<>> /\ lastCall'[1].op = "addShape" /\ lastCall'[1].b = b) =>
                LET shape == lastCall'[1].shape[1]
                IN  /\ ~awaked[b] => (shapes'[b] = Append(shapes[b], shape) /\ fixtures' = fixtures)
                    /\ (awaked[b] /\ shape.shapeType \in {"box", "circle", "edge", "polygon"}) =>
                          /\ Len(fixtures'[b]) = Len(fixtures[b]) + 1
                          /\ SubSeq(fixtures'[b], 1, Len(fixtures[b])) = fixtures[b]
                          /\ fixtures'[b][Len(fixtures'[b])].shapeType = shape.shapeType
                          /\ fixtures'[b][Len(fixtures'[b])].crossSide = shape.crossSide
                          /\ shapes' = shapes]_vars

\* C14 witness: two different shapes were buffered, in the order of the calls,
\* on a binding that is not awaked and has no fixture, while the other
\* binding is awaked.
C14_Witness ==
    /\ ~awaked[1]
    /\ awaked[2]
    /\ shapes[1] = <<[shapeType |-> "circle", crossSide |-> "top"], [shapeType |-> "box", crossSide |-> NoSide]>>
    /\ fixtures[1] = <<>>
    /\ lastCall # <<>>
    /\ lastCall[1].shape = <<[shapeType |-> "box", crossSide |-> NoSide]>>

\* C15: awaking a binding whose entity is in no scene throws, and leaves the
\* body as it was: inactive, without fixtures, its type, position, velocity
\* and user data unchanged, and the shape list and the registry unchanged.
C15_AwakeWithoutScene ==
    [][\A b \in Bindings : (~awaked[b] /\ awaked'[b] /\ ~scene[b]) =>
          /\ thrown' = "Please add to a scene first"
          /\ ~bactive'[b]
          /\ fixtures'[b] = <<>>
          /\ bkind' = bkind /\ bpos' = bpos /\ userData' = userData /\ bvel' = bvel /\ bactive' = bactive
          /\ shapes' = shapes
          /\ categoryMap' = categoryMap /\ count' = count]_vars

\* C15 witness: a dynamic binding with two buffered shapes was awaked outside
\* a scene; the error was thrown and the body is still the inactive kinematic
\* body of the constructor, without fixtures and user data.
C15_Witness ==
    \E b \in Bindings :
        /\ awaked[b] /\ ~scene[b]
        /\ thrown = "Please add to a scene first"
        /\ rigidType[b] = "dynamic"
        /\ bkind[b] = "kinematic"
        /\ ~bactive[b]
        /\ fixtures[b] = <<>>
        /\ userData[b] = NoBinding
        /\ Len(shapes[b]) = 2

\* the shapes of a list whose kind addShape knows
KnownShapes(ss) == SelectSeq(ss, LAMBDA sh : sh.shapeType \in {"box", "circle", "edge", "polygon"})

\* C19: awaking a binding whose entity is in a scene throws nothing and
\* leaves the shape list alone; when the list holds shapes of known kinds the
\* body gets one fixture for each, in the order of the list, and when the
\* list is empty it gets one box; afterwards the body type is the rigid type,
\* the body is active, its position is the entity's scene position divided by
\* pixelRatio, its angle the entity's rotation, and its user data the binding.
C19_AwakeRealizes ==
    [][\A b \in Bindings : (~awaked[b] /\ awaked'[b] /\ scene[b]) =>
          /\ thrown' = "none"
          /\ shapes' = shapes
          /\ shapes[b] = <<>> =>
                (Len(fixtures'[b]) = 1 /\ fixtures'[b][1].shapeType = "box" /\ fixtures'[b][1].crossSide = NoSide)
          /\ (shapes[b] # <<>> /\ KnownShapes(shapes[b]) = shapes[b]) =>
                /\ Len(fixtures'[b]) = Len(shapes[b])
                /\ \A n \in DOMAIN shapes[b] :
                      fixtures'[b][n].shapeType = shapes[b][n].shapeType /\ fixtures'[b][n].crossSide = shapes[b][n].crossSide
          /\ bkind'[b] = rigidType[b]
          /\ bactive'[b]
          /\ bpos'[b].x * pixelRatio = toWorldPoint(b, epos[b]).x
          /\ bpos'[b].y * pixelRatio = toWorldPoint(b, epos[b]).y
          /\ bpos'[b].angle = erot[b]
          /\ userData'[b] = b]_vars

\* C19 witness: a static binding in a scene with two different buffered
\* shapes is awaked: its body is static and active, has the two fixtures in
\* the order of the list, and the list still holds the two shapes.
C19_Witness ==
    /\ awaked[1] /\ scene[1]
    /\ rigidType[1] = "static" /\ bkind[1] = "static"
    /\ bactive[1]
    /\ userData[1] = 1
    /\ Len(shapes[1]) = 2
    /\ shapes[1][1].shapeType = "circle" /\ shapes[1][2].shapeType = "box"
    /\ Len(fixtures[1]) = 2
    /\ fixtures[1][1].shapeType = "circle" /\ fixtures[1][2].shapeType = "box"
    /\ bpos[1].x = 100 /\ bpos[1].y = 100

\* C16 as stated: a setVelocity call leaves the velocity of an axis alone when
\* the argument of the axis is absent, and makes it the argument when it is
\* given.
C16_SetVelocityAxes_AsStated ==
    [][(lastCall' # <<>> /\ lastCall'[1].op = "setVelocity") =>
          LET c == lastCall'[1]
          IN  /\ bvel'[c.b].x = (IF c.x = <<>> THEN bvel[c.b].x ELSE c.x[1])
              /\ bvel'[c.b].y = (IF c.y = <<>> THEN bvel[c.b].y ELSE c.y[1])]_vars

\* C16 amended: the same for a body that is not static; a setVelocity call on
\* a static body changes no velocity; no call changes another body's velocity.
C16_SetVelocityAxes ==
    [][(lastCall' # <<>> /\ lastCall'[1].op = "setVelocity") =>
          LET c == lastCall'[1]
          IN  /\ bkind[c.b] # "static" =>
                    /\ bvel'[c.b].x = (IF c.x = <<>> THEN bvel[c.b].x ELSE c.x[1])
                    /\ bvel'[c.b].y = (IF c.y = <<>> THEN bvel[c.b].y ELSE c.y[1])
              /\ bkind[c.b] = "static" => bvel' = bvel
              /\ \A o \in Bodies \ {c.b} : bvel'[o] = bvel[o]]_vars

\* C16 witness: the last call was setVelocity(0, undefined) on a body that is
\* not static and was moving on both axes: x is 0 now and y is still moving.
C16_Witness ==
    /\ lastCall # <<>>
    /\ lastCall[1].op = "setVelocity"
    /\ lastCall[1].x = <<0>> /\ lastCall[1].y = <<>>
    /\ bkind[lastCall[1].b] # "static"
    /\ bvel[lastCall[1].b] = [x |-> 0, y |-> 300]


\* C18 as stated: update is subscribed once on one timer when enabled is true,
\* and on no timer when enabled is false.
C18_OneScheduler ==
    /\ Cardinality({t \in Timers : loops[t] > 0}) = (IF enabled THEN 1 ELSE 0)
    /\ \A t \in Timers : loops[t] <= 1

\* C20: when a listener disables physics during the drain, the step that
\* disables it keeps every queued entry and moves on to the next one; while
\* physics is disabled and entries are left the drain goes on, one entry
\* after the other; update() returns only when the loop index has passed the
\* end of the queue, with every entry taken, and leaves the queue empty.
C20_DisableKeepsQueue ==
    [][/\ (pc = "draining" /\ enabled /\ ~enabled') =>
              (pc' = "draining" /\ i' = i + 2 /\ Len(contacts') >= Len(contacts) /\ SubSeq(contacts', 1, Len(contacts)) = contacts)
       /\ (pc = "draining" /\ ~enabled /\ i < Len(contacts)) =>
              (pc' = "draining" /\ i' = i + 2 /\ Len(evals') = Len(evals) + 1 /\ evals'[Len(evals')].at = i
                 /\ Len(contacts') >= Len(contacts) /\ SubSeq(contacts', 1, Len(contacts)) = contacts)
       /\ (pc = "draining" /\ pc' = "idle") =>
              (~(i < Len(contacts)) /\ 2 * Len(evals) = Len(contacts) /\ contacts' = <<>>)]_vars

\* C20 witness: a listener disabled physics while the first of two queued
\* entries was drained; the second entry was drained all the same, with an
\* event, and the loop is at its end.
C20_Witness ==
    /\ pc = "draining"
    /\ ~enabled
    /\ ~(i < Len(contacts))
    /\ Len(evals) = 2
    /\ evals[1].off
    /\ evals[2].firedA \/ evals[2].firedB


\* entry n + 2 of conv comes from entry n by a conversion and then the
\* opposite conversion
RoundTrip(n) ==
    \/ conv[n + 1].op \in {"toPhy", "toPhyPos"} /\ conv[n + 2].op \in {"to2D", "to2DPos"}
    \/ conv[n + 1].op \in {"to2D", "to2DPos"} /\ conv[n + 2].op \in {"toPhy", "toPhyPos"}

\* two doubles are equal or next to each other
Near(a, b) == a = b \/ (a.m # <<>> /\ b.m # <<>> /\ (a = nextUp(b) \/ b = nextUp(a)))

\* C17 as stated: a conversion followed by the opposite conversion gives the
\* number, or the point, it started from.
C17_RoundTrip_AsStated ==
    \A n \in 1..(Len(conv) - 2) : RoundTrip(n) => conv[n + 2].v = conv[n].v

\* C17 amended: a conversion followed by the opposite conversion gives, in
\* each component, the double it started from or a double next to it; the
\* ratio is 50: 50 pixels are 1 in the simulation.
C17_RoundTrip ==
    /\ \A n \in 1..(Len(conv) - 2) : RoundTrip(n) =>
          (Len(conv[n + 2].v) = Len(conv[n].v) /\ \A k \in DOMAIN conv[n].v : Near(conv[n + 2].v[k], conv[n].v[k]))
    /\ \A n \in 1..(Len(conv) - 1) :
          /\ (conv[n].v = <<fromInt(50)>> /\ conv[n + 1].op = "toPhy") => conv[n + 1].v = <<fromInt(1)>>
          /\ (conv[n].v = <<fromInt(100)>> /\ conv[n + 1].op = "to2D") => conv[n + 1].v = <<fromInt(5000)>>
          /\ (conv[n].v = <<fromInt(100), fromInt(200)>> /\ conv[n + 1].op = "toPhyPos") => conv[n + 1].v = <<fromInt(2), fromInt(4)>>

\* C17 witness: 7 pixels were converted to the simulation and back, and the
\* result is the double next to 7.
C17_Witness ==
    /\ Len(conv) >= 3
    /\ conv[1].v = <<fromInt(7)>>
    /\ conv[2].op = "toPhy"
    /\ conv[3].op = "to2D"
    /\ conv[3].v = <<nextUp(fromInt(7))>>

\* C21: a shape whose kind is none of box, circle, edge and polygon yields no
\* fixture and no error.  An addShape call with such a shape on an awaked
\* binding leaves every body's fixtures, the shape lists and the thrown error
\* as they were; awaking a binding in a scene whose list holds such shapes
\* throws nothing and gives the body exactly one fixture for each shape of a
\* known kind, in the order of the list, those after the unknown one included.
C21_UnknownKindSkipped ==
    [][\A b \in Bindings :
          /\ (lastCall' # <<>> /\ lastCall'[1].op = "addShape" /\ lastCall'[1].b = b /\ awaked[b]
                /\ lastCall'[1].shape[1].shapeType \notin {"box", "circle", "edge", "polygon"}) =>
                (fixtures' = fixtures /\ shapes' = shapes /\ thrown' = thrown)
          /\ (~awaked[b] /\ awaked'[b] /\ scene[b] /\ KnownShapes(shapes[b]) # shapes[b]) =>
                LET known == KnownShapes(shapes[b])
                IN  /\ thrown' = "none"
                    /\ Len(fixtures'[b]) = Len(fixtures[b]) + Len(known)
                    /\ SubSeq(fixtures'[b], 1, Len(fixtures[b])) = fixtures[b]
                    /\ \A n \in DOMAIN known :
                          /\ fixtures'[b][Len(fixtures[b]) + n].shapeType = known[n].shapeType
                          /\ fixtures'[b][Len(fixtures[b]) + n].crossSide = known[n].crossSide]_vars

\* C21 witness: a binding in a scene whose list holds a shape of an unknown
\* kind followed by a circle was awaked without an error; its body is active
\* and has the circle's fixture alone.
C21_Witness ==
    /\ awaked[1] /\ scene[1] /\ bactive[1]
    /\ thrown = "none"
    /\ shapes[1] = <<[shapeType |-> "star", crossSide |-> NoSide], [shapeType |-> "circle", crossSide |-> "top"]>>
    /\ Len(fixtures[1]) = 1
    /\ fixtures[1][1].shapeType = "circle" /\ fixtures[1][1].crossSide = "top"

====
